---- MODULE Spec2Model ----
(***************************************************************************)
(* Model of training/training.py: the Whisper fine-tuning driver.          *)
(*                                                                         *)
(* Strings the script inspects (directory entries, output directories,    *)
(* checkpoint paths) are sequences of one-character strings, so that       *)
(* str.startswith, str.split, int() and the f-string formatting are        *)
(* computed character by character.                                        *)
(***************************************************************************)
EXTENDS Integers, Sequences, FiniteSets, TLC

(***************************************************************************)
(* Bounds of the model.                                                    *)
(***************************************************************************)
\* longest directory listing handed to the locator in SpecLocator
MaxEntries == 4
\* number of invocations of the script in one behaviour
MaxRuns == 2
\* largest --freeze_layers value tried
MaxFreeze == 2
\* largest number of encoder sublayers of a loaded model
MaxLayers == 2

(***************************************************************************)
(* Character-level string helpers (Python str semantics).                  *)
(***************************************************************************)
DigitChars == <<"0", "1", "2", "3", "4", "5", "6", "7", "8", "9">>

\* The characters int() reads as decimal digits: the ASCII digits and the
\* decimal digits of every other script (Unicode 14.0, the character database
\* of the interpreter), one row per script in the order of their values
\* 0 to 9.  A character outside printable ASCII is written by its code point,
\* "U+0663" for ARABIC-INDIC DIGIT THREE.
DecimalDigits ==
    <<DigitChars,
      <<"U+0660", "U+0661", "U+0662", "U+0663", "U+0664", "U+0665", "U+0666", "U+0667", "U+0668", "U+0669">>,
      <<"U+06F0", "U+06F1", "U+06F2", "U+06F3", "U+06F4", "U+06F5", "U+06F6", "U+06F7", "U+06F8", "U+06F9">>,
      <<"U+07C0", "U+07C1", "U+07C2", "U+07C3", "U+07C4", "U+07C5", "U+07C6", "U+07C7", "U+07C8", "U+07C9">>,
      <<"U+0966", "U+0967", "U+0968", "U+0969", "U+096A", "U+096B", "U+096C", "U+096D", "U+096E", "U+096F">>,
      <<"U+09E6", "U+09E7", "U+09E8", "U+09E9", "U+09EA", "U+09EB", "U+09EC", "U+09ED", "U+09EE", "U+09EF">>,
      <<"U+0A66", "U+0A67", "U+0A68", "U+0A69", "U+0A6A", "U+0A6B", "U+0A6C", "U+0A6D", "U+0A6E", "U+0A6F">>,
      <<"U+0AE6", "U+0AE7", "U+0AE8", "U+0AE9", "U+0AEA", "U+0AEB", "U+0AEC", "U+0AED", "U+0AEE", "U+0AEF">>,
      <<"U+0B66", "U+0B67", "U+0B68", "U+0B69", "U+0B6A", "U+0B6B", "U+0B6C", "U+0B6D", "U+0B6E", "U+0B6F">>,
      <<"U+0BE6", "U+0BE7", "U+0BE8", "U+0BE9", "U+0BEA", "U+0BEB", "U+0BEC", "U+0BED", "U+0BEE", "U+0BEF">>,
      <<"U+0C66", "U+0C67", "U+0C68", "U+0C69", "U+0C6A", "U+0C6B", "U+0C6C", "U+0C6D", "U+0C6E", "U+0C6F">>,
      <<"U+0CE6", "U+0CE7", "U+0CE8", "U+0CE9", "U+0CEA", "U+0CEB", "U+0CEC", "U+0CED", "U+0CEE", "U+0CEF">>,
      <<"U+0D66", "U+0D67", "U+0D68", "U+0D69", "U+0D6A", "U+0D6B", "U+0D6C", "U+0D6D", "U+0D6E", "U+0D6F">>,
      <<"U+0DE6", "U+0DE7", "U+0DE8", "U+0DE9", "U+0DEA", "U+0DEB", "U+0DEC", "U+0DED", "U+0DEE", "U+0DEF">>,
      <<"U+0E50", "U+0E51", "U+0E52", "U+0E53", "U+0E54", "U+0E55", "U+0E56", "U+0E57", "U+0E58", "U+0E59">>,
      <<"U+0ED0", "U+0ED1", "U+0ED2", "U+0ED3", "U+0ED4", "U+0ED5", "U+0ED6", "U+0ED7", "U+0ED8", "U+0ED9">>,
      <<"U+0F20", "U+0F21", "U+0F22", "U+0F23", "U+0F24", "U+0F25", "U+0F26", "U+0F27", "U+0F28", "U+0F29">>,
      <<"U+1040", "U+1041", "U+1042", "U+1043", "U+1044", "U+1045", "U+1046", "U+1047", "U+1048", "U+1049">>,
      <<"U+1090", "U+1091", "U+1092", "U+1093", "U+1094", "U+1095", "U+1096", "U+1097", "U+1098", "U+1099">>,
      <<"U+17E0", "U+17E1", "U+17E2", "U+17E3", "U+17E4", "U+17E5", "U+17E6", "U+17E7", "U+17E8", "U+17E9">>,
      <<"U+1810", "U+1811", "U+1812", "U+1813", "U+1814", "U+1815", "U+1816", "U+1817", "U+1818", "U+1819">>,
      <<"U+1946", "U+1947", "U+1948", "U+1949", "U+194A", "U+194B", "U+194C", "U+194D", "U+194E", "U+194F">>,
      <<"U+19D0", "U+19D1", "U+19D2", "U+19D3", "U+19D4", "U+19D5", "U+19D6", "U+19D7", "U+19D8", "U+19D9">>,
      <<"U+1A80", "U+1A81", "U+1A82", "U+1A83", "U+1A84", "U+1A85", "U+1A86", "U+1A87", "U+1A88", "U+1A89">>,
      <<"U+1A90", "U+1A91", "U+1A92", "U+1A93", "U+1A94", "U+1A95", "U+1A96", "U+1A97", "U+1A98", "U+1A99">>,
      <<"U+1B50", "U+1B51", "U+1B52", "U+1B53", "U+1B54", "U+1B55", "U+1B56", "U+1B57", "U+1B58", "U+1B59">>,
      <<"U+1BB0", "U+1BB1", "U+1BB2", "U+1BB3", "U+1BB4", "U+1BB5", "U+1BB6", "U+1BB7", "U+1BB8", "U+1BB9">>,
      <<"U+1C40", "U+1C41", "U+1C42", "U+1C43", "U+1C44", "U+1C45", "U+1C46", "U+1C47", "U+1C48", "U+1C49">>,
      <<"U+1C50", "U+1C51", "U+1C52", "U+1C53", "U+1C54", "U+1C55", "U+1C56", "U+1C57", "U+1C58", "U+1C59">>,
      <<"U+A620", "U+A621", "U+A622", "U+A623", "U+A624", "U+A625", "U+A626", "U+A627", "U+A628", "U+A629">>,
      <<"U+A8D0", "U+A8D1", "U+A8D2", "U+A8D3", "U+A8D4", "U+A8D5", "U+A8D6", "U+A8D7", "U+A8D8", "U+A8D9">>,
      <<"U+A900", "U+A901", "U+A902", "U+A903", "U+A904", "U+A905", "U+A906", "U+A907", "U+A908", "U+A909">>,
      <<"U+A9D0", "U+A9D1", "U+A9D2", "U+A9D3", "U+A9D4", "U+A9D5", "U+A9D6", "U+A9D7", "U+A9D8", "U+A9D9">>,
      <<"U+A9F0", "U+A9F1", "U+A9F2", "U+A9F3", "U+A9F4", "U+A9F5", "U+A9F6", "U+A9F7", "U+A9F8", "U+A9F9">>,
      <<"U+AA50", "U+AA51", "U+AA52", "U+AA53", "U+AA54", "U+AA55", "U+AA56", "U+AA57", "U+AA58", "U+AA59">>,
      <<"U+ABF0", "U+ABF1", "U+ABF2", "U+ABF3", "U+ABF4", "U+ABF5", "U+ABF6", "U+ABF7", "U+ABF8", "U+ABF9">>,
      <<"U+FF10", "U+FF11", "U+FF12", "U+FF13", "U+FF14", "U+FF15", "U+FF16", "U+FF17", "U+FF18", "U+FF19">>,
      <<"U+104A0", "U+104A1", "U+104A2", "U+104A3", "U+104A4", "U+104A5", "U+104A6", "U+104A7", "U+104A8", "U+104A9">>,
      <<"U+10D30", "U+10D31", "U+10D32", "U+10D33", "U+10D34", "U+10D35", "U+10D36", "U+10D37", "U+10D38", "U+10D39">>,
      <<"U+11066", "U+11067", "U+11068", "U+11069", "U+1106A", "U+1106B", "U+1106C", "U+1106D", "U+1106E", "U+1106F">>,
      <<"U+110F0", "U+110F1", "U+110F2", "U+110F3", "U+110F4", "U+110F5", "U+110F6", "U+110F7", "U+110F8", "U+110F9">>,
      <<"U+11136", "U+11137", "U+11138", "U+11139", "U+1113A", "U+1113B", "U+1113C", "U+1113D", "U+1113E", "U+1113F">>,
      <<"U+111D0", "U+111D1", "U+111D2", "U+111D3", "U+111D4", "U+111D5", "U+111D6", "U+111D7", "U+111D8", "U+111D9">>,
      <<"U+112F0", "U+112F1", "U+112F2", "U+112F3", "U+112F4", "U+112F5", "U+112F6", "U+112F7", "U+112F8", "U+112F9">>,
      <<"U+11450", "U+11451", "U+11452", "U+11453", "U+11454", "U+11455", "U+11456", "U+11457", "U+11458", "U+11459">>,
      <<"U+114D0", "U+114D1", "U+114D2", "U+114D3", "U+114D4", "U+114D5", "U+114D6", "U+114D7", "U+114D8", "U+114D9">>,
      <<"U+11650", "U+11651", "U+11652", "U+11653", "U+11654", "U+11655", "U+11656", "U+11657", "U+11658", "U+11659">>,
      <<"U+116C0", "U+116C1", "U+116C2", "U+116C3", "U+116C4", "U+116C5", "U+116C6", "U+116C7", "U+116C8", "U+116C9">>,
      <<"U+11730", "U+11731", "U+11732", "U+11733", "U+11734", "U+11735", "U+11736", "U+11737", "U+11738", "U+11739">>,
      <<"U+118E0", "U+118E1", "U+118E2", "U+118E3", "U+118E4", "U+118E5", "U+118E6", "U+118E7", "U+118E8", "U+118E9">>,
      <<"U+11950", "U+11951", "U+11952", "U+11953", "U+11954", "U+11955", "U+11956", "U+11957", "U+11958", "U+11959">>,
      <<"U+11C50", "U+11C51", "U+11C52", "U+11C53", "U+11C54", "U+11C55", "U+11C56", "U+11C57", "U+11C58", "U+11C59">>,
      <<"U+11D50", "U+11D51", "U+11D52", "U+11D53", "U+11D54", "U+11D55", "U+11D56", "U+11D57", "U+11D58", "U+11D59">>,
      <<"U+11DA0", "U+11DA1", "U+11DA2", "U+11DA3", "U+11DA4", "U+11DA5", "U+11DA6", "U+11DA7", "U+11DA8", "U+11DA9">>,
      <<"U+16A60", "U+16A61", "U+16A62", "U+16A63", "U+16A64", "U+16A65", "U+16A66", "U+16A67", "U+16A68", "U+16A69">>,
      <<"U+16AC0", "U+16AC1", "U+16AC2", "U+16AC3", "U+16AC4", "U+16AC5", "U+16AC6", "U+16AC7", "U+16AC8", "U+16AC9">>,
      <<"U+16B50", "U+16B51", "U+16B52", "U+16B53", "U+16B54", "U+16B55", "U+16B56", "U+16B57", "U+16B58", "U+16B59">>,
      <<"U+1D7CE", "U+1D7CF", "U+1D7D0", "U+1D7D1", "U+1D7D2", "U+1D7D3", "U+1D7D4", "U+1D7D5", "U+1D7D6", "U+1D7D7">>,
      <<"U+1D7D8", "U+1D7D9", "U+1D7DA", "U+1D7DB", "U+1D7DC", "U+1D7DD", "U+1D7DE", "U+1D7DF", "U+1D7E0", "U+1D7E1">>,
      <<"U+1D7E2", "U+1D7E3", "U+1D7E4", "U+1D7E5", "U+1D7E6", "U+1D7E7", "U+1D7E8", "U+1D7E9", "U+1D7EA", "U+1D7EB">>,
      <<"U+1D7EC", "U+1D7ED", "U+1D7EE", "U+1D7EF", "U+1D7F0", "U+1D7F1", "U+1D7F2", "U+1D7F3", "U+1D7F4", "U+1D7F5">>,
      <<"U+1D7F6", "U+1D7F7", "U+1D7F8", "U+1D7F9", "U+1D7FA", "U+1D7FB", "U+1D7FC", "U+1D7FD", "U+1D7FE", "U+1D7FF">>,
      <<"U+1E140", "U+1E141", "U+1E142", "U+1E143", "U+1E144", "U+1E145", "U+1E146", "U+1E147", "U+1E148", "U+1E149">>,
      <<"U+1E2F0", "U+1E2F1", "U+1E2F2", "U+1E2F3", "U+1E2F4", "U+1E2F5", "U+1E2F6", "U+1E2F7", "U+1E2F8", "U+1E2F9">>,
      <<"U+1E950", "U+1E951", "U+1E952", "U+1E953", "U+1E954", "U+1E955", "U+1E956", "U+1E957", "U+1E958", "U+1E959">>,
      <<"U+1FBF0", "U+1FBF1", "U+1FBF2", "U+1FBF3", "U+1FBF4", "U+1FBF5", "U+1FBF6", "U+1FBF7", "U+1FBF8", "U+1FBF9">>>>

\* the value int() gives each decimal digit
DecimalValue ==
    LET chars == {DecimalDigits[r][i] : r \in 1..Len(DecimalDigits), i \in 1..10}
    IN  [c \in chars |->
            (CHOOSE i \in 1..10 : \E r \in 1..Len(DecimalDigits) : DecimalDigits[r][i] = c) - 1]

IsDigit(c) == c \in DOMAIN DecimalValue

DigitValue(c) == DecimalValue[c]

\* Python str(n) for a natural number n
RECURSIVE FormatNat(_)
FormatNat(n) ==
    IF n < 10 THEN <<DigitChars[n + 1]>>
    ELSE FormatNat(n \div 10) \o <<DigitChars[(n % 10) + 1]>>

\* Python str(n) / f"{n}" for an integer n
FormatInt(n) == IF n < 0 THEN <<"-">> \o FormatNat(0 - n) ELSE FormatNat(n)

\* x.startswith(p)
StartsWith(x, p) == Len(x) >= Len(p) /\ SubSeq(x, 1, Len(p)) = p

\* x.split(sep) for a one-character separator: the list of the pieces
RECURSIVE SplitFrom(_, _, _, _)
SplitFrom(x, sep, i, cur) ==
    IF i > Len(x) THEN <<cur>>
    ELSE IF x[i] = sep THEN <<cur>> \o SplitFrom(x, sep, i + 1, <<>>)
    ELSE SplitFrom(x, sep, i + 1, Append(cur, x[i]))

Split(x, sep) == SplitFrom(x, sep, 1, <<>>)

\* The characters int() skips around the literal: tab, line feed, vertical
\* tab, form feed, carriage return, the blank, and every whitespace character
\* outside ASCII.  The separators U+001C to U+001F, which str.strip() removes,
\* are not among them: int("\x1c12") raises ValueError.  The control
\* characters that have an escape are accepted in both spellings.
WhitespaceChars ==
    {"\t", "U+0009", "\n", "U+000A", "U+000B", "\f", "U+000C", "\r",
     "U+000D", " ", "U+0085", "U+00A0", "U+1680", "U+2000", "U+2001",
     "U+2002", "U+2003", "U+2004", "U+2005", "U+2006", "U+2007", "U+2008",
     "U+2009", "U+200A", "U+2028", "U+2029", "U+202F", "U+205F", "U+3000"}

\* the stripping int() applies to its argument
RECURSIVE StripLeft(_)
StripLeft(s) ==
    IF s # <<>> /\ Head(s) \in WhitespaceChars THEN StripLeft(Tail(s)) ELSE s

RECURSIVE StripRight(_)
StripRight(s) ==
    IF s # <<>> /\ s[Len(s)] \in WhitespaceChars
    THEN StripRight(SubSeq(s, 1, Len(s) - 1)) ELSE s

Strip(s) == StripRight(StripLeft(s))

\* the digit part of an int() literal: digits, single underscores between them
IsDigitPart(s) ==
    /\ s # <<>>
    /\ \A i \in 1..Len(s) : IsDigit(s[i]) \/ s[i] = "_"
    /\ IsDigit(s[1]) /\ IsDigit(s[Len(s)])
    /\ \A i \in 1..(Len(s) - 1) : ~(s[i] = "_" /\ s[i + 1] = "_")

RECURSIVE DigitPartValue(_, _)
DigitPartValue(s, acc) ==
    IF s = <<>> THEN acc
    ELSE IF Head(s) = "_" THEN DigitPartValue(Tail(s), acc)
    ELSE DigitPartValue(Tail(s), acc * 10 + DigitValue(Head(s)))

\* Python int(s) in base 10: ok = FALSE stands for ValueError
ParseInt(s) ==
    LET t == Strip(s)
        signed == t # <<>> /\ (Head(t) = "-" \/ Head(t) = "+")
        body == IF signed THEN Tail(t) ELSE t
    IN  IF IsDigitPart(body)
        THEN [ok |-> TRUE,
              val |-> IF signed /\ Head(t) = "-"
                      THEN 0 - DigitPartValue(body, 0)
                      ELSE DigitPartValue(body, 0)]
        ELSE [ok |-> FALSE, val |-> 0]

\* os.path.join(base, name) for a relative name
PathJoin(base, name) == base \o <<"/">> \o name

(***************************************************************************)
(* Checkpoint Locator: get_latest_checkpoint.                              *)
(***************************************************************************)
CheckpointPrefix == <<"c", "h", "e", "c", "k", "p", "o", "i", "n", "t">>

NoPath == <<>>

\* the value of a digit string padded on the right to six places: comparing
\* these numbers compares the strings lexicographically
RECURSIVE PadRight(_)
PadRight(s) == IF Len(s) >= 6 THEN SubSeq(s, 1, 6) ELSE PadRight(Append(s, "0"))

\* variant: the key is the string x.split("-")[1], not its integer value
SortKeyLexical(x) ==
    LET parts == Split(x, "-")
    IN  IF Len(parts) < 2 THEN [err |-> "IndexError", val |-> 0]
        ELSE IF parts[2] # <<>> /\ \A i \in 1..Len(parts[2]) : IsDigit(parts[2][i])
        THEN [err |-> "none", val |-> DigitPartValue(PadRight(parts[2]), 0)]
        ELSE [err |-> "none", val |-> 0]

\* the sort key  lambda x: int(x.split("-")[1]) ; err is the exception raised
SortKey(x) ==
    LET parts == Split(x, "-")
    IN  IF Len(parts) < 2 THEN [err |-> "IndexError", val |-> 0]
        ELSE LET p == ParseInt(parts[2])
             IN  IF p.ok THEN [err |-> "none", val |-> p.val]
                 ELSE [err |-> "ValueError", val |-> 0]

\* [d for d in os.listdir(output_dir) if d.startswith("checkpoint")]
FilterCheckpoints(listing) == SelectSeq(listing, LAMBDA d : StartsWith(d, CheckpointPrefix))

\* list.sort computes the key of every element once, in list order, before
\* it compares any: the elements paired with their keys
RECURSIVE Keyed(_)
Keyed(s) ==
    IF s = <<>> THEN <<>>
    ELSE <<[key |-> SortKey(Head(s)), item |-> Head(s)]>> \o Keyed(Tail(s))

\* the first exception raised while the keys are computed
RECURSIVE FirstKeyError(_)
FirstKeyError(ks) ==
    IF ks = <<>> THEN "none"
    ELSE IF Head(ks).key.err # "none" THEN Head(ks).key.err
    ELSE FirstKeyError(Tail(ks))

\* list.sort(key=..., reverse=True): stable, descending by key (insertion sort)
RECURSIVE InsertDesc(_, _)
InsertDesc(x, sorted) ==
    IF sorted = <<>> THEN <<x>>
    ELSE IF Head(sorted).key.val >= x.key.val
         THEN <<Head(sorted)>> \o InsertDesc(x, Tail(sorted))
         ELSE <<x>> \o sorted

\* variant: reverse=True left out, so the list is sorted ascending
RECURSIVE InsertAsc(_, _)
InsertAsc(x, sorted) ==
    IF sorted = <<>> THEN <<x>>
    ELSE IF Head(sorted).key.val <= x.key.val
         THEN <<Head(sorted)>> \o InsertAsc(x, Tail(sorted))
         ELSE <<x>> \o sorted

RECURSIVE SortAsc(_)
SortAsc(ks) ==
    IF ks = <<>> THEN <<>>
    ELSE InsertAsc(ks[Len(ks)], SortAsc(SubSeq(ks, 1, Len(ks) - 1)))

RECURSIVE SortDesc(_)
SortDesc(ks) ==
    IF ks = <<>> THEN <<>>
    ELSE InsertDesc(ks[Len(ks)], SortDesc(SubSeq(ks, 1, Len(ks) - 1)))

\* get_latest_checkpoint(output_dir), given os.path.isdir and os.listdir
GetLatestCheckpoint(output_dir, isdir, listing) ==
    IF ~isdir THEN [kind |-> "none", path |-> NoPath, error |-> "none"]
    ELSE LET checkpoints == FilterCheckpoints(listing)
         IN  IF checkpoints = <<>>
             THEN [kind |-> "none", path |-> NoPath, error |-> "none"]
             ELSE LET keyed == Keyed(checkpoints)
                      raised == FirstKeyError(keyed)
                  IN  IF raised # "none"
                      THEN [kind |-> "error", path |-> NoPath, error |-> raised]
                      ELSE [kind |-> "path",
                            path |-> PathJoin(output_dir, SortDesc(keyed)[1].item),
                            error |-> "none"]

(***************************************************************************)
(* Command line and Hyperparameter Table: get_training_args.               *)
(***************************************************************************)
\* choices=[...] of the positional argument model_size
Choices == {"tiny", "small", "medium", "large"}

\* the characters of a model-size string, as the f-strings interpolate it
SizeChars(model_size) ==
    CASE model_size = "tiny" -> <<"t", "i", "n", "y">>
      [] model_size = "small" -> <<"s", "m", "a", "l", "l">>
      [] model_size = "medium" -> <<"m", "e", "d", "i", "u", "m">>
      [] model_size = "large" -> <<"l", "a", "r", "g", "e">>
      [] OTHER -> <<"b", "a", "s", "e">>

TrainedModelsPrefix ==
    <<".", ".", "/", ".", ".", "/", "t", "r", "a", "i", "n", "e", "d", "_",
      "m", "o", "d", "e", "l", "s", "/", "w", "h", "i", "s", "p", "e", "r", "-">>

VanillaSuffix == <<"-", "v", "a", "n", "i", "l", "l", "a">>

FreezingInfix == <<"l", "a", "r", "g", "e", "-", "f", "r", "e", "e", "z", "i", "n", "g", "-">>

\* Python None, and a present value
None == <<>>

Some(x) == <<x>>

\* variant: the renaming of lines 74-75 left out
OutputDirNameVanillaOnly(model_size, freeze_layers) ==
    TrainedModelsPrefix \o SizeChars(model_size) \o VanillaSuffix

\* the value of output_dir at the end of lines 71-75
OutputDirName(model_size, freeze_layers) ==
    IF model_size = "large" /\ freeze_layers > 0
    THEN TrainedModelsPrefix \o FreezingInfix \o FormatInt(freeze_layers)
    ELSE TrainedModelsPrefix \o SizeChars(model_size) \o VanillaSuffix

\* the Seq2SeqTrainingArguments of one branch (learning rate in units of 1e-8)
TrainingArguments(output_dir, batch, accum, lr_e8, warmup) ==
    [output_dir |-> output_dir,
     per_device_train_batch_size |-> batch,
     gradient_accumulation_steps |-> accum,
     learning_rate_e8 |-> lr_e8,
     warmup_steps |-> warmup,
     max_steps |-> 14000,
     per_device_eval_batch_size |-> 8,
     generation_max_length |-> 225,
     save_steps |-> 1000,
     eval_steps |-> 1000,
     logging_steps |-> 25,
     save_total_limit |-> 5]

\* get_training_args(model_size, freeze_layers): falls off the end (None)
\* when no branch matches
GetTrainingArgs(model_size, freeze_layers) ==
    LET output_dir == OutputDirName(model_size, freeze_layers)
    IN  IF model_size = "small"
        THEN Some(TrainingArguments(output_dir, 16, 1, 1250, 500))
        ELSE IF model_size = "medium"
        THEN Some(TrainingArguments(output_dir, 8, 2, 625, 500))
        ELSE IF model_size = "large"
        THEN Some(TrainingArguments(output_dir, 4, 4, 500, 1000))
        ELSE None

(***************************************************************************)
(* Layer Freezer: the loop of lines 46-52 over model.model.encoder.layers. *)
(***************************************************************************)
\* a freshly loaded model: requires_grad of each parameter group
LoadedModel(num_layers) ==
    [encoder |-> [i \in 1..num_layers |-> TRUE], decoder |-> TRUE, embeddings |-> TRUE]

\* variant: the loop stops silently at the last sublayer (clamps n)
RECURSIVE FreezeFromClamped(_, _, _)
FreezeFromClamped(m, layer_idx, n) ==
    IF layer_idx >= n \/ layer_idx >= Len(m.encoder) THEN [model |-> m, error |-> "none"]
    ELSE FreezeFromClamped([m EXCEPT !.encoder[layer_idx + 1] = FALSE], layer_idx + 1, n)

\* for layer_idx in range(n): layers[layer_idx] raises IndexError past the end
RECURSIVE FreezeFrom(_, _, _)
FreezeFrom(m, layer_idx, n) ==
    IF layer_idx >= n THEN [model |-> m, error |-> "none"]
    ELSE IF layer_idx >= Len(m.encoder) THEN [model |-> m, error |-> "IndexError"]
    ELSE FreezeFrom([m EXCEPT !.encoder[layer_idx + 1] = FALSE], layer_idx + 1, n)

\* variant: the loop runs over range(freeze_layers + 1)
FreezeLayersOffByOne(m, freeze_layers) ==
    IF freeze_layers > 0
    THEN LET r == FreezeFrom(m, 0, freeze_layers + 1)
         IN  [model |-> r.model, error |-> r.error,
              log |-> [msg |-> "Freezing the first n encoder layers.",
                       n |-> freeze_layers, path |-> NoPath]]
    ELSE [model |-> m, error |-> "none",
          log |-> [msg |-> "No encoder layers are frozen.", n |-> 0, path |-> NoPath]]

\* lines 46-52: the model after the step, the exception, the message printed
FreezeLayers(m, freeze_layers) ==
    IF freeze_layers > 0
    THEN LET r == FreezeFrom(m, 0, freeze_layers)
         IN  [model |-> r.model, error |-> r.error,
              log |-> [msg |-> "Freezing the first n encoder layers.",
                       n |-> freeze_layers, path |-> NoPath]]
    ELSE [model |-> m, error |-> "none",
          log |-> [msg |-> "No encoder layers are frozen.", n |-> 0, path |-> NoPath]]

(***************************************************************************)
(* File system and the external training loop.                             *)
(***************************************************************************)
PreprocessorConfig ==
    <<"p", "r", "e", "p", "r", "o", "c", "e", "s", "s", "o", "r", "_",
      "c", "o", "n", "f", "i", "g", ".", "j", "s", "o", "n">>

ModelConfig == <<"c", "o", "n", "f", "i", "g", ".", "j", "s", "o", "n">>

\* the name the trainer gives the checkpoint of a global step
CheckpointName(step) == CheckpointPrefix \o <<"-">> \o FormatInt(step)

IsDir(f, d) == d \in DOMAIN f

Entries(f, d) == IF IsDir(f, d) THEN f[d] ELSE {}

\* os.makedirs(d, exist_ok=True) followed by writing the entries in names
WriteEntries(f, d, names) == (d :> (Entries(f, d) \cup names)) @@ f

\* a fixed enumeration of a finite set
RECURSIVE SetToSeq(_)
SetToSeq(S) ==
    IF S = {} THEN <<>>
    ELSE LET x == CHOOSE y \in S : TRUE IN <<x>> \o SetToSeq(S \ {x})

\* The orders os.listdir may return the entries in.  The locator's outcome
\* depends on the order only through the first entry that raises and the first
\* entry among those of greatest key, so one listing per first entry yields
\* every outcome an arbitrary order can yield.
ListDirOrders(S) ==
    IF S = {} THEN {<<>>} ELSE {<<x>> \o SetToSeq(S \ {x}) : x \in S}

(***************************************************************************)
(* State.                                                                  *)
(***************************************************************************)
VARIABLES
    fs,             \* trained_models: output directory -> names of its entries
    wrote,          \* the checkpoints on disk: directory, name, global step, writer
    run,            \* number of invocations of the script so far
    argv,           \* the command line of the current invocation
    pc,             \* the statement the current invocation is at
    error,          \* the exception that ended the invocation, or "none"
    args,           \* parser.parse_args()
    model,          \* requires_grad of the model's parameter groups
    training_args,  \* get_training_args(...)
    checkpoint,     \* get_latest_checkpoint(training_args.output_dir)
    log,            \* the lines printed by the freezer and the locator
    fsStart,        \* fs as it was when the current invocation started
    dirExists,      \* SpecLocator: os.path.isdir(output_dir)
    listing,        \* SpecLocator: os.listdir(output_dir)
    located         \* SpecLocator: outcome of get_latest_checkpoint

vars == <<fs, wrote, run, argv, pc, error, args, model, training_args,
          checkpoint, log, fsStart, dirExists, listing, located>>

scanVars == <<dirExists, listing, located>>

Pending == [kind |-> "pending", path |-> NoPath, error |-> "none"]

NoArgv == [model_size |-> "", freeze_layers |-> 0]

InitRun ==
    /\ fs = <<>>
    /\ wrote = {}
    /\ run = 0
    /\ argv = NoArgv
    /\ pc = "idle"
    /\ error = "none"
    /\ args = None
    /\ model = None
    /\ training_args = None
    /\ checkpoint = None
    /\ log = <<>>
    /\ fsStart = <<>>

Init ==
    /\ InitRun
    /\ dirExists = FALSE
    /\ listing = <<>>
    /\ located = Pending

(***************************************************************************)
(* The external training loop: trainer.train(resume_from_checkpoint=...).  *)
(***************************************************************************)
\* the checkpoints of directory d on disk
CheckpointsIn(w, d) == {c \in w : c.dir = d}

\* the global step stored in the checkpoint the run resumes from
ResumeStep(w, ckpt) ==
    IF ckpt = None THEN 0 ELSE (CHOOSE c \in w : PathJoin(c.dir, c.name) = ckpt).step

\* the steps at which the loop saves when it runs from step from to step last:
\* the multiples of save_steps in from+1 .. last
SavedSteps(targs, from, last) ==
    {k * targs.save_steps :
        k \in ((from \div targs.save_steps) + 1)..(last \div targs.save_steps)}

\* the steps at which the loop can stop: every step it has saved at (progress
\* past the last save is lost), or where it started
StopSteps(targs, from) ==
    {from} \cup SavedSteps(targs, from, targs.max_steps)

\* save_total_limit: the checkpoints of greatest step that are kept
Rotate(cs, limit) ==
    {c \in cs : Cardinality({o \in cs : o.step > c.step}) < limit}

\* the checkpoints on disk after the loop has run from its start to step last
CheckpointsAfter(w, targs, ckpt, last, by) ==
    LET d == targs.output_dir
        new == {[dir |-> d, name |-> CheckpointName(s), step |-> s,
                 model_size |-> by.model_size, freeze_layers |-> by.freeze_layers,
                 run |-> by.run, raised |-> by.raised] :
                    s \in SavedSteps(targs, ResumeStep(w, ckpt), last)}
        old == CheckpointsIn(w, d)
    IN  IF new = {} THEN w
        ELSE (w \ old) \cup Rotate(old \cup new, targs.save_total_limit)

\* the directory entries after the loop: the checkpoints kept, the other files
EntriesAfter(f, w2, d) ==
    (d :> ({e \in Entries(f, d) : ~StartsWith(e, CheckpointPrefix)}
           \cup {c.name : c \in CheckpointsIn(w2, d)})) @@ f

(***************************************************************************)
(* The script, statement by statement.                                     *)
(***************************************************************************)
Terminated == pc \in {"idle", "done"} \/ error # "none"

FreezeInputs == (0 - 1)..MaxFreeze

SizeInputs == Choices \cup {"base"}

\* lines 15-18: parse_args; choices rejects the size, type=int takes any integer
ParseArgs(av) ==
    IF av.model_size \in Choices
    THEN Some([model_size |-> av.model_size, freeze_layers |-> av.freeze_layers])
    ELSE None

\* lines 15-26: a new invocation; argparse exits on a rejected command line
Invoke(model_size, freeze_layers) ==
    /\ Terminated
    /\ run < MaxRuns
    /\ run' = run + 1
    /\ argv' = [model_size |-> model_size, freeze_layers |-> freeze_layers]
    /\ fsStart' = fs
    /\ model' = None
    /\ training_args' = None
    /\ checkpoint' = None
    /\ log' = <<>>
    /\ args' = ParseArgs(argv')
    /\ IF args' # None
       THEN pc' = "load_dataset" /\ error' = "none"
       ELSE pc' = "parse_args" /\ error' = "SystemExit"
    /\ UNCHANGED <<fs, wrote, scanVars>>

\* lines 33-40: load_from_disk, fatal when the prepared dataset is absent
\* (FileNotFoundError) or lacks one of the splits train, eval, test (KeyError)
LoadDataset ==
    /\ pc = "load_dataset" /\ error = "none"
    /\ \/ pc' = "load_model" /\ error' = "none"
       \/ pc' = pc /\ error' = "FileNotFoundError"
       \/ pc' = pc /\ error' = "KeyError"
    /\ UNCHANGED <<fs, wrote, run, argv, args, model, training_args, checkpoint,
                   log, fsStart, scanVars>>

\* lines 42-43: from_pretrained, fatal when the model cannot be fetched;
\* the model has num_layers encoder sublayers
LoadModel ==
    /\ pc = "load_model" /\ error = "none"
    /\ \/ \E num_layers \in 1..MaxLayers :
             /\ model' = Some(LoadedModel(num_layers))
             /\ pc' = "freeze"
             /\ error' = "none"
       \/ /\ model' = model
          /\ pc' = pc
          /\ error' = "OSError"
    /\ UNCHANGED <<fs, wrote, run, argv, args, training_args, checkpoint,
                   log, fsStart, scanVars>>

\* lines 45-52
Freeze ==
    /\ pc = "freeze" /\ error = "none"
    /\ LET r == FreezeLayers(model[1], args[1].freeze_layers)
       IN  /\ model' = Some(r.model)
           /\ log' = Append(log, r.log)
           /\ error' = r.error
           /\ pc' = IF r.error = "none" THEN "training_args" ELSE pc
    /\ UNCHANGED <<fs, wrote, run, argv, args, training_args, checkpoint,
                   fsStart, scanVars>>

\* line 150
BuildTrainingArgs ==
    /\ pc = "training_args" /\ error = "none"
    /\ training_args' = GetTrainingArgs(args[1].model_size, args[1].freeze_layers)
    /\ pc' = "locate"
    /\ UNCHANGED <<fs, wrote, run, argv, error, args, model, checkpoint, log,
                   fsStart, scanVars>>

\* lines 162-166: training_args.output_dir raises on None
LocateCheckpoint ==
    /\ pc = "locate" /\ error = "none"
    /\ IF training_args = None
       THEN /\ error' = "AttributeError"
            /\ UNCHANGED <<pc, checkpoint, log>>
       ELSE \E order \in ListDirOrders(Entries(fs, training_args[1].output_dir)) :
              LET d == training_args[1].output_dir
                  r == GetLatestCheckpoint(d, IsDir(fs, d), order)
              IN  IF r.kind = "error"
                  THEN /\ error' = r.error
                       /\ UNCHANGED <<pc, checkpoint, log>>
                  ELSE /\ checkpoint' = r.path
                       /\ log' = Append(log,
                            IF r.path # None
                            THEN [msg |-> "Resuming from checkpoint: ", n |-> 0,
                                  path |-> r.path]
                            ELSE [msg |-> "No checkpoint found. Starting fresh training.",
                                  n |-> 0, path |-> NoPath])
                       /\ pc' = "save_processor"
                       /\ error' = "none"
    /\ UNCHANGED <<fs, wrote, run, argv, args, model, training_args, fsStart,
                   scanVars>>

\* line 178: processor.save_pretrained(training_args.output_dir)
SaveProcessor ==
    /\ pc = "save_processor" /\ error = "none"
    /\ fs' = WriteEntries(fs, training_args[1].output_dir, {PreprocessorConfig})
    /\ pc' = "train"
    /\ UNCHANGED <<wrote, run, argv, error, args, model, training_args, checkpoint,
                   log, fsStart, scanVars>>

\* line 183: the loop runs to max_steps, or raises after step last
Train ==
    /\ pc = "train" /\ error = "none"
    /\ LET targs == training_args[1]
           from == ResumeStep(wrote, checkpoint)
       IN  \E last \in StopSteps(targs, from), raised \in BOOLEAN :
              /\ (~raised) => last >= targs.max_steps \/ from >= targs.max_steps
              /\ wrote' = CheckpointsAfter(wrote, targs, checkpoint, last,
                              [model_size |-> args[1].model_size,
                               freeze_layers |-> args[1].freeze_layers,
                               run |-> run, raised |-> raised])
              /\ fs' = EntriesAfter(fs, wrote', targs.output_dir)
              /\ IF raised
                 THEN error' = "TrainingFailure" /\ pc' = pc
                 ELSE error' = "none" /\ pc' = "save_model"
    /\ UNCHANGED <<run, argv, args, model, training_args, checkpoint, log,
                   fsStart, scanVars>>

\* line 189: trainer.save_model(training_args.output_dir)
SaveModel ==
    /\ pc = "save_model" /\ error = "none"
    /\ fs' = WriteEntries(fs, training_args[1].output_dir, {ModelConfig})
    /\ pc' = "evaluate"
    /\ UNCHANGED <<wrote, run, argv, error, args, model, training_args, checkpoint,
                   log, fsStart, scanVars>>

\* lines 192-194
Evaluate ==
    /\ pc = "evaluate" /\ error = "none"
    /\ pc' = "done"
    /\ UNCHANGED <<fs, wrote, run, argv, error, args, model, training_args,
                   checkpoint, log, fsStart, scanVars>>

Step ==
    \/ LoadDataset
    \/ LoadModel
    \/ Freeze
    \/ BuildTrainingArgs
    \/ LocateCheckpoint
    \/ SaveProcessor
    \/ Train
    \/ SaveModel
    \/ Evaluate

\* any number of invocations (up to MaxRuns), one after the other
Next ==
    \/ \E model_size \in SizeInputs, freeze_layers \in FreezeInputs :
          Invoke(model_size, freeze_layers)
    \/ Step

Spec == Init /\ [][Next]_vars

\* one invocation, against an empty trained_models directory
NextRun ==
    \/ \E model_size \in SizeInputs, freeze_layers \in FreezeInputs :
          run = 0 /\ Invoke(model_size, freeze_layers)
    \/ Step

SpecRun == Init /\ [][NextRun]_vars

(***************************************************************************)
(* The locator alone, on an arbitrary directory.                           *)
(***************************************************************************)
Ck200 == CheckpointName(200)

Ck500 == CheckpointName(500)

Ck1500 == CheckpointName(1500)

Ck9 == CheckpointName(9)

CkAbc == CheckpointPrefix \o <<"-", "a", "b", "c">>

CkBare == CheckpointPrefix

CkOld == CheckpointPrefix \o <<"s", "_", "o", "l", "d">>

Ck12Tmp == CheckpointPrefix \o <<"-", "1", "2", "-", "t", "m", "p">>

\* "checkpoint-<TAB>7": int() skips the tab, the key is 7
CkTab7 == CheckpointPrefix \o <<"-", "\t", "7">>

\* "checkpoint-" and the Arabic-Indic digits one, two: the key is 12
CkArabic12 == CheckpointPrefix \o <<"-", "U+0661", "U+0662">>

RunsDir == <<"r", "u", "n", "s">>

EntryNames == {Ck200, Ck500, Ck1500, Ck9, CkAbc, CkBare, CkOld, Ck12Tmp, CkTab7,
               CkArabic12, RunsDir, PreprocessorConfig}

\* the directory the locator is pointed at
ScanDir == OutputDirName("small", 0)

\* every listing of at most MaxEntries distinct entries, in every order
Listings ==
    UNION {{l \in [1..n -> EntryNames] : \A i, j \in 1..n : i # j => l[i] # l[j]} :
              n \in 0..MaxEntries}

InitLocator ==
    /\ InitRun
    /\ dirExists \in BOOLEAN
    /\ listing \in Listings
    /\ located = Pending

LocatorCall ==
    /\ located = Pending
    /\ located' = GetLatestCheckpoint(ScanDir, dirExists, listing)
    /\ UNCHANGED <<fs, wrote, run, argv, pc, error, args, model, training_args,
                   checkpoint, log, fsStart, dirExists, listing>>

NextLocator == LocatorCall

SpecLocator == InitLocator /\ [][NextLocator]_vars

(***************************************************************************)
(* Vocabulary of the properties.                                           *)
(***************************************************************************)
PostFreeze == {"training_args", "locate", "save_processor", "train", "save_model",
               "evaluate", "done"}

PostConfig == PostFreeze \ {"training_args"}

PostLocate == PostConfig \ {"locate"}

Range(q) == {q[i] : i \in 1..Len(q)}

EndsWith(x, sfx) == Len(x) >= Len(sfx) /\ SubSeq(x, Len(x) - Len(sfx) + 1, Len(x)) = sfx

Contains(x, part) ==
    \E i \in 1..(Len(x) - Len(part) + 1) : SubSeq(x, i, i + Len(part) - 1) = part

\* an entry named "checkpoint-<integer>": the prefix, a dash, and the digits
\* 0 to 9 as the training loop writes them
IsCheckpointName(x) ==
    /\ Len(x) > Len(CheckpointPrefix) + 1
    /\ SubSeq(x, 1, Len(CheckpointPrefix) + 1) = CheckpointPrefix \o <<"-">>
    /\ \A i \in (Len(CheckpointPrefix) + 2)..Len(x) : x[i] \in Range(DigitChars)

RECURSIVE Decimal(_)
Decimal(ds) ==
    IF ds = <<>> THEN 0
    ELSE 10 * Decimal(SubSeq(ds, 1, Len(ds) - 1)) + DigitValue(ds[Len(ds)])

\* the integer suffix of an entry named "checkpoint-<integer>"
NameStep(x) == Decimal(SubSeq(x, Len(CheckpointPrefix) + 2, Len(x)))

WellFormed(q) == {x \in Range(q) : IsCheckpointName(x)}

Prefixed(q) == {x \in Range(q) : StartsWith(x, CheckpointPrefix)}

DistinctSteps(S) == \A x, y \in S : x # y => NameStep(x) # NameStep(y)

Latest(S) == CHOOSE x \in S : \A y \in S : NameStep(y) <= NameStep(x)

\* the number of encoder sublayers a run with this freeze count freezes
Frozen(freeze_layers) == IF freeze_layers > 0 THEN freeze_layers ELSE 0

\* the checkpoints on disk that the previous invocation wrote before its
\* training loop raised, when it had the command line of the current one
PrevInterrupted ==
    {c \in wrote : /\ c.run = run - 1
                   /\ c.raised
                   /\ c.model_size = argv.model_size
                   /\ c.freeze_layers = argv.freeze_layers}

NewestOf(cs) == CHOOSE c \in cs : \A o \in cs : o.step <= c.step

ResumeLine(path) == [msg |-> "Resuming from checkpoint: ", n |-> 0, path |-> path]

\* Every outcome the locator has on an arbitrary order of a directory is an
\* outcome it has on one of the orders ListDirOrders enumerates.
ListDirOrdersCover ==
    (located # Pending /\ dirExists)
    => \E o \in ListDirOrders(Range(listing)) :
          GetLatestCheckpoint(ScanDir, TRUE, o) = located

(***************************************************************************)
(* C1.                                                                     *)
(***************************************************************************)
\* C1 as stated: for an existing directory with at least one entry named
\* "checkpoint-<integer>" (suffixes pairwise distinct) the locator returns the
\* path of the entry of greatest integer suffix, whatever the listing order and
\* whatever other entries are present.
C1_LatestWhateverElse ==
    (located # Pending /\ dirExists /\ WellFormed(listing) # {}
        /\ DistinctSteps(WellFormed(listing)))
    => /\ located.kind = "path"
       /\ located.path = PathJoin(ScanDir, Latest(WellFormed(listing)))

\* C1 amended: the same, when every other entry present does not begin with
\* the prefix "checkpoint" (all entries that pass the filter are well formed).
C1_LatestByInteger ==
    (located # Pending /\ dirExists /\ WellFormed(listing) # {}
        /\ DistinctSteps(WellFormed(listing))
        /\ Prefixed(listing) = WellFormed(listing))
    => /\ located.kind = "path"
       /\ located.path = PathJoin(ScanDir, Latest(WellFormed(listing)))

\* the example of the specification, with a foreign entry, in the order given
C1_Witness ==
    /\ located.kind = "path"
    /\ listing = <<Ck500, Ck1500, PreprocessorConfig, Ck200>>
    /\ located.path = PathJoin(ScanDir, Ck1500)

(***************************************************************************)
(* C2.                                                                     *)
(***************************************************************************)
\* C2: when the previous invocation had the same model size and freeze_layers
\* and its training loop raised after writing at least one checkpoint, the
\* locator of the current invocation does not fail, and the checkpoint it
\* logs and hands to trainer.train is the one of highest step written by the
\* previous invocation.
C2_ResumeLatest ==
    (run >= 2 /\ args # None /\ PrevInterrupted # {})
    => /\ (pc = "locate" => error = "none")
       /\ (pc \in {"save_processor", "train"} /\ error = "none")
            => LET c == NewestOf(PrevInterrupted)
               IN  /\ checkpoint = PathJoin(c.dir, c.name)
                   /\ c.dir = training_args[1].output_dir
                   /\ log[Len(log)] = ResumeLine(checkpoint)

\* a second run about to train, after a first run that raised having written
\* checkpoint-9000 and checkpoint-10000
C2_Witness ==
    /\ run = 2 /\ pc = "train" /\ error = "none"
    /\ \E c \in PrevInterrupted : c.step = 9000
    /\ \E c \in PrevInterrupted : c.step = 10000 /\ checkpoint = PathJoin(c.dir, c.name)

(***************************************************************************)
(* C3.                                                                     *)
(***************************************************************************)
\* C3: a run with a valid command line that has come to resolving its
\* checkpoint is in exactly one of the modes fresh start and resume, and it is
\* a fresh start if and only if its output directory, as it was when the run
\* started, does not exist or holds no entry beginning with the checkpoint
\* prefix.
C3_ExactlyOneMode ==
    (args # None /\ argv.freeze_layers >= 0
        /\ (pc \in PostLocate \/ (pc = "locate" /\ error # "none")))
    => LET d == OutputDirName(args[1].model_size, args[1].freeze_layers)
           fresh == pc \in PostLocate /\ checkpoint = None
           resume == pc \in PostLocate /\ checkpoint # None
           empty == ~\E e \in Entries(fsStart, d) : StartsWith(e, CheckpointPrefix)
       IN  /\ fresh \/ resume
           /\ ~(fresh /\ resume)
           /\ fresh <=> empty

(***************************************************************************)
(* C4.                                                                     *)
(***************************************************************************)
\* C4: for each of the four sizes and any freeze_layers >= 0 the table returns
\* a configuration (never None) whose batch size, accumulation steps, warmup
\* steps, max steps, save/eval/logging steps and save_total_limit are
\* non-negative and are those of the size, whatever freeze_layers is.
C4_TableTotal ==
    (args # None /\ argv.freeze_layers >= 0 /\ pc \in PostConfig)
    => /\ training_args # None
       /\ LET t == training_args[1]
              z == GetTrainingArgs(args[1].model_size, 0)[1]
          IN  /\ t.per_device_train_batch_size >= 0
              /\ t.gradient_accumulation_steps >= 0
              /\ t.warmup_steps >= 0 /\ t.max_steps >= 0
              /\ t.save_steps >= 0 /\ t.eval_steps >= 0 /\ t.logging_steps >= 0
              /\ t.save_total_limit >= 0
              /\ [t EXCEPT !.output_dir = NoPath] = [z EXCEPT !.output_dir = NoPath]

(***************************************************************************)
(* C5.                                                                     *)
(***************************************************************************)
\* C5: after the freezing step with a count N, 0 <= N <= L, on a model whose
\* parameters were all trainable, an encoder sublayer is non-trainable if and
\* only if its position is in [0, N), the decoder and the embeddings are
\* still trainable, and for N = 0 nothing changed and "No encoder layers are
\* frozen." was printed.
C5_FreezerFrame ==
    (pc \in PostFreeze /\ args[1].freeze_layers >= 0
        /\ args[1].freeze_layers <= Len(model[1].encoder))
    => LET m == model[1]
           n == args[1].freeze_layers
       IN  /\ \A i \in 1..Len(m.encoder) : (~m.encoder[i]) <=> (i - 1 < n)
           /\ m.decoder /\ m.embeddings
           /\ n = 0 => /\ m = LoadedModel(Len(m.encoder))
                       /\ log[1].msg = "No encoder layers are frozen."

\* one of two sublayers frozen
C5_Witness ==
    /\ pc = "training_args"
    /\ args[1].freeze_layers = 1
    /\ model[1].encoder = <<FALSE, TRUE>>

(***************************************************************************)
(* C6.                                                                     *)
(***************************************************************************)
\* C6: a run given a model size outside the choices or a negative
\* freeze-layer count is stopped by the argument parser: it loads no dataset
\* and no model, freezes nothing, writes nothing and never trains.
C6_InvalidInputAborts ==
    (run > 0 /\ (argv.model_size \notin Choices \/ argv.freeze_layers < 0))
    => /\ pc = "parse_args" /\ error = "SystemExit"
       /\ model = None
       /\ fs = fsStart

(***************************************************************************)
(* C7.                                                                     *)
(***************************************************************************)
\* C7: whenever the scanned directory holds an entry that begins with the
\* checkpoint prefix and is not named "checkpoint-<integer>", the locator
\* fails with an error: it returns neither a path nor None.
C7_MalformedFailsFast ==
    (located # Pending /\ dirExists /\ Prefixed(listing) # WellFormed(listing))
    => located.kind = "error"

(***************************************************************************)
(* C8.                                                                     *)
(***************************************************************************)
\* C8: a run whose freeze count exceeds the number of encoder sublayers of
\* its model never gets past the freezing step, and the freezing step ends
\* it with an IndexError.
C8_FreezeBounds ==
    (args # None /\ model # None
        /\ args[1].freeze_layers > Len(model[1].encoder))
    => pc = "freeze" /\ error \in {"none", "IndexError"}

\* the step has failed for N = L + 1
C8_Witness ==
    /\ pc = "freeze" /\ error = "IndexError"
    /\ args[1].freeze_layers = Len(model[1].encoder) + 1

(***************************************************************************)
(* C9.                                                                     *)
(***************************************************************************)
\* C9: the configuration returned for a run with a valid command line carries
\* an output directory whose name holds the model size, ends in
\* "freezing-<freeze_layers>" exactly when the size is large and
\* freeze_layers > 0 and in "vanilla" otherwise, and which is the only
\* directory the run writes to.
C9_OutputDirNaming ==
    (args # None /\ argv.freeze_layers >= 0 /\ pc \in PostConfig)
    => /\ training_args # None
       /\ LET d == training_args[1].output_dir
              size == args[1].model_size
              n == args[1].freeze_layers
              freezing == <<"f", "r", "e", "e", "z", "i", "n", "g", "-">> \o FormatInt(n)
          IN  /\ Contains(d, SizeChars(size))
              /\ EndsWith(d, freezing) <=> (size = "large" /\ n > 0)
              /\ ~(size = "large" /\ n > 0) => EndsWith(d, <<"v", "a", "n", "i", "l", "l", "a">>)
              /\ \A o \in DOMAIN fs : o # d => (o \in DOMAIN fsStart /\ fs[o] = fsStart[o])

(***************************************************************************)
(* C10.                                                                    *)
(***************************************************************************)
\* C10 as stated: over runs with valid inputs (a size among the choices, a
\* freeze_layers >= 0), the checkpoint a run resumes from was written by an
\* earlier run with the same model size and the same freeze_layers.
C10_SameSizeAndFreeze ==
    (pc \in PostLocate /\ checkpoint # None /\ args[1].freeze_layers >= 0)
    => \A c \in wrote : (PathJoin(c.dir, c.name) = checkpoint /\ c.freeze_layers >= 0)
          => /\ c.run < run
             /\ c.model_size = args[1].model_size
             /\ c.freeze_layers = args[1].freeze_layers

\* C10 amended: the checkpoint a run resumes from is on disk and was written
\* by an earlier run with the same model size which, when the size is large,
\* froze the same number of encoder sublayers (a count of 0 or less freezes
\* none); for the other sizes the earlier run may have had any freeze_layers.
C10_SameOutputDir ==
    (pc \in PostLocate /\ checkpoint # None)
    => /\ \A c \in wrote : PathJoin(c.dir, c.name) = checkpoint
             => /\ c.run < run
                /\ c.model_size = args[1].model_size
                /\ args[1].model_size = "large"
                     => Frozen(c.freeze_layers) = Frozen(args[1].freeze_layers)
       /\ (pc \in {"save_processor", "train"} /\ error = "none")
             => \E c \in wrote : PathJoin(c.dir, c.name) = checkpoint

\* a run of the large model freezing one sublayer resumes from its own kind
C10_Witness ==
    /\ pc = "train" /\ error = "none" /\ checkpoint # None
    /\ args[1].model_size = "large" /\ args[1].freeze_layers = 1
    /\ \E c \in wrote : PathJoin(c.dir, c.name) = checkpoint /\ c.freeze_layers = 1

====
